---- MODULE Spec2Model ----
(***************************************************************************)
(* Model of src/model/album.js: the Album tree and its recursive finalize. *)
(*                                                                         *)
(* Strings are sequences of one-character strings, so that sanitise,       *)
(* titleize, the numbers-first regular expression and the string ordering  *)
(* used by the sorts are computed character by character.                  *)
(* A JavaScript value that may be undefined/null is a sequence of length   *)
(* 0 (undefined) or 1 (the value); a string option that is not given is    *)
(* the empty string, which `||` treats the same way.                       *)
(***************************************************************************)
EXTENDS Integers, Sequences, FiniteSets, TLC

\* ------------------------------------------------------------------ bounds
\* largest number of albums in a tree (root included)
MaxNodes == 4
\* number of entries of ProfilePool the albums are built from
NumProfiles == 7
\* number of times finalize(options, null) is called on the root
MaxRuns == 2

\* ------------------------------------------------------------- characters
UPPER == <<"A","B","C","D","E","F","G","H","I","J","K","L","M",
           "N","O","P","Q","R","S","T","U","V","W","X","Y","Z">>
LOWER == <<"a","b","c","d","e","f","g","h","i","j","k","l","m",
           "n","o","p","q","r","s","t","u","v","w","x","y","z">>
DIGITS == <<"0","1","2","3","4","5","6","7","8","9">>
\* the characters of the model in the order of their UTF-16 code units
ALPHABET == <<" ", "!", ",", "-", ".", "/">> \o DIGITS \o UPPER \o <<"_">> \o LOWER

Range(s) == {s[i] : i \in 1..Len(s)}
IsUpper(c) == c \in Range(UPPER)
IsLower(c) == c \in Range(LOWER)
IsDigit(c) == c \in Range(DIGITS)
\* \w of a JavaScript regular expression
IsWord(c) == IsUpper(c) \/ IsLower(c) \/ IsDigit(c) \/ c = "_"
\* \s, on the characters of the model
IsSpace(c) == c = " "

Code == [c \in Range(ALPHABET) |-> CHOOSE i \in 1..Len(ALPHABET) : ALPHABET[i] = c]
LetterIndex == [c \in Range(UPPER) \cup Range(LOWER) |->
                  CHOOSE i \in 1..Len(UPPER) : UPPER[i] = c \/ LOWER[i] = c]
ToLowerChar(c) == IF IsUpper(c) THEN LOWER[LetterIndex[c]] ELSE c
ToUpperChar(c) == IF IsLower(c) THEN UPPER[LetterIndex[c]] ELSE c

\* String.prototype.toLowerCase
ToLowerCase(s) == [i \in 1..Len(s) |-> ToLowerChar(s[i])]

\* a < b for two strings: the JavaScript relational comparison
StrLess(a, b) ==
  \E i \in 1..(Len(b)) :
     /\ \A j \in 1..(i-1) : j <= Len(a) /\ a[j] = b[j]
     /\ \/ i = Len(a) + 1
        \/ i <= Len(a) /\ Code[a[i]] < Code[b[i]]

\* '' + n for a non-negative integer
RECURSIVE NumToString(_)
NumToString(n) ==
  IF n < 10 THEN <<DIGITS[n + 1]>>
  ELSE NumToString(n \div 10) \o <<DIGITS[(n % 10) + 1]>>

\* ------------------------------------------------------- sanitise, titleize
\* sanitise: filename.replace(/[^a-z0-9-_]/ig, '')
IsSafeChar(c) == IsUpper(c) \/ IsLower(c) \/ IsDigit(c) \/ c = "-" \/ c = "_"
sanitise(filename) == SelectSeq(filename, IsSafeChar)

\* str.replace(/([A-Z\d]+)([A-Z][a-z])/g, '$1 $2'): the greedy run of
\* capitals and digits must end in the capital that starts [A-Z][a-z], so
\* a blank goes in front of every capital that follows a capital or digit
\* and precedes a lower-case letter
RECURSIVE SplitAcronyms(_, _)
SplitAcronyms(s, i) ==
  IF i > Len(s) THEN <<>>
  ELSE IF /\ i > 1 /\ i < Len(s)
          /\ (IsUpper(s[i-1]) \/ IsDigit(s[i-1]))
          /\ IsUpper(s[i]) /\ IsLower(s[i+1])
       THEN <<" ", s[i]>> \o SplitAcronyms(s, i + 1)
       ELSE <<s[i]>> \o SplitAcronyms(s, i + 1)

\* str.replace(/([a-z\d])([A-Z])/g, '$1 $2')
RECURSIVE SplitCamel(_, _)
SplitCamel(s, i) ==
  IF i > Len(s) THEN <<>>
  ELSE IF /\ i > 1
          /\ (IsLower(s[i-1]) \/ IsDigit(s[i-1]))
          /\ IsUpper(s[i])
       THEN <<" ", s[i]>> \o SplitCamel(s, i + 1)
       ELSE <<s[i]>> \o SplitCamel(s, i + 1)

\* str.replace(/_/g, ' ')
UnderscoresToBlanks(s) == [i \in 1..Len(s) |-> IF s[i] = "_" THEN " " ELSE s[i]]

\* w.replace(/^\W*[a-z]/, toUpperCase): the first character that is a word
\* character is capitalised when it is a lower-case letter
FirstWordChar(s) ==
  IF \E i \in 1..Len(s) : IsWord(s[i])
  THEN CHOOSE i \in 1..Len(s) : IsWord(s[i]) /\ \A j \in 1..(i-1) : ~IsWord(s[j])
  ELSE 0
Capitalize(s) ==
  LET p == FirstWordChar(s)
  IN  IF p > 0 /\ IsLower(s[p]) THEN [s EXCEPT ![p] = ToUpperChar(s[p])] ELSE s

\* String.prototype.trim
RECURSIVE TrimLeft(_)
TrimLeft(s) == IF s # <<>> /\ IsSpace(Head(s)) THEN TrimLeft(Tail(s)) ELSE s
RECURSIVE TrimRight(_)
TrimRight(s) ==
  IF s # <<>> /\ IsSpace(s[Len(s)]) THEN TrimRight(SubSeq(s, 1, Len(s) - 1)) ELSE s
Trim(s) == TrimRight(TrimLeft(s))

\* s.split(/\s+/) of a trimmed string: the words between runs of blanks
RECURSIVE SplitWords(_, _)
SplitWords(s, word) ==
  IF s = <<>> THEN <<word>>
  ELSE IF IsSpace(Head(s))
       THEN IF word = <<>> THEN SplitWords(Tail(s), word)
            ELSE <<word>> \o SplitWords(TrimLeft(s), <<>>)
       ELSE SplitWords(Tail(s), Append(word, Head(s)))

\* words.join(sep)
RECURSIVE Join(_, _)
Join(words, sep) ==
  IF words = <<>> THEN <<>>
  ELSE IF Len(words) = 1 THEN words[1]
       ELSE words[1] \o sep \o Join(Tail(words), sep)

titleize(str) ==
  LET split   == SplitCamel(SplitAcronyms(str, 1), 1)
      lowered == ToLowerCase(UnderscoresToBlanks(split))
      words   == SplitWords(Trim(Capitalize(lowered)), <<>>)
  IN  Join([i \in 1..Len(words) |-> Capitalize(words[i])], <<" ">>)

\* ------------------------------------------------------------ lodash helpers
\* undefined, and a defined value
UNDEFINED == <<>>
Some(v) == <<v>>

RECURSIVE Sum(_)
Sum(s) == IF s = <<>> THEN 0 ELSE Head(s) + Sum(Tail(s))

\* _.compact on numbers: 0 is falsy
IsTruthyNumber(n) == n # 0
\* _.compact on values that may be undefined: undefined and 0 are falsy
IsTruthyValue(v) == v # UNDEFINED /\ v[1] # 0
\* _.compact on strings: '' is falsy
IsTruthyString(s) == s # <<>>

\* the numbers of an array of defined values
Unwrap(values) == [i \in DOMAIN values |-> values[i][1]]
\* _.min / _.max of an array of numbers: undefined for an empty array
Min(values) ==
  IF values = <<>> THEN UNDEFINED
  ELSE Some(CHOOSE m \in Range(values) : \A v \in Range(values) : m <= v)
Max(values) ==
  IF values = <<>> THEN UNDEFINED
  ELSE Some(CHOOSE m \in Range(values) : \A v \in Range(values) : m >= v)

\* lodash compareAscending on two strings
CompareStrings(a, b) == IF StrLess(b, a) THEN 1 ELSE IF StrLess(a, b) THEN -1 ELSE 0
\* lodash compareAscending on two numbers that may be undefined: undefined
\* sorts after every number
CompareValues(a, b) ==
  IF a = b THEN 0
  ELSE IF a = UNDEFINED THEN 1
  ELSE IF b = UNDEFINED THEN -1
  ELSE IF a[1] > b[1] THEN 1 ELSE -1

\* _.orderBy(seq, iteratee, order), where compare[i][j] is compareAscending
\* of the iteratee's values of seq[i] and seq[j]: a stable sort, reversed
\* only for order 'desc' (elements that compare equal keep their order in
\* either direction). The positions of seq are sorted, then read back.
RECURSIVE InsertOrdered(_, _, _, _)
InsertOrdered(sorted, k, compare, sign) ==
  IF sorted # <<>> /\ sign * compare[sorted[Len(sorted)]][k] > 0
  THEN Append(InsertOrdered(SubSeq(sorted, 1, Len(sorted) - 1), k, compare, sign),
              sorted[Len(sorted)])
  ELSE Append(sorted, k)
RECURSIVE OrderByFrom(_, _, _, _, _)
OrderByFrom(sorted, k, size, compare, sign) ==
  IF k > size THEN sorted
  ELSE OrderByFrom(InsertOrdered(sorted, k, compare, sign), k + 1, size, compare, sign)
OrderBy(seq, compare, order) ==
  LET positions == OrderByFrom(<<>>, 1, Len(seq), compare,
                               IF order = "desc" THEN -1 ELSE 1)
  IN  [i \in 1..Len(seq) |-> seq[positions[i]]]

\* --------------------------------------------------------------- constants
PREVIEW_COUNT == 10
PREVIEW_MISSING == [urls |-> [thumbnail |-> "public/missing.png"]]

\* SORT_MEDIA_BY[by] applied through compareAscending; a key that is not in
\* the table gives _.orderBy the identity, and two objects compare equal
CompareMedia(by, f, g) ==
  IF by = "filename" THEN CompareStrings(f.filename, g.filename)
  ELSE IF by = "date" THEN CompareValues(f.meta.date, g.meta.date)
  ELSE 0

\* SORT_ALBUMS_BY[by] applied through compareAscending, on albums A[a], A[b]
CompareAlbums(A, by, a, b) ==
  IF by = "title" THEN CompareStrings(A[a].title, A[b].title)
  ELSE IF by = "start-date" THEN CompareValues(A[a].stats.fromDate, A[b].stats.fromDate)
  ELSE IF by = "end-date" THEN CompareValues(A[a].stats.toDate, A[b].stats.toDate)
  ELSE 0

\* --------------------------------------------------------------- the Album
\* function Album(opts): the album with id `id`, title, files and child albums
Album(id, title, files, albums) ==
  LET t == IF title # <<>> THEN title
           ELSE <<"A","l","b","u","m"," ">> \o NumToString(id)
  IN  [id       |-> id,
       title    |-> t,
       basename |-> sanitise(t),
       files    |-> files,
       albums   |-> albums,
       depth    |-> 0,
       home     |-> FALSE,
       stats    |-> UNDEFINED,
       previews |-> UNDEFINED,
       path     |-> UNDEFINED,
       url      |-> UNDEFINED,
       summary  |-> UNDEFINED]

\* calculateStats with the nested albums left out of the sums
calculateStatsOwnOnly(A, n) ==
  LET photos == Len(SelectSeq(A[n].files, LAMBDA f : f.type = "image"))
      videos == Len(SelectSeq(A[n].files, LAMBDA f : f.type = "video"))
      dates  == Unwrap(SelectSeq([i \in DOMAIN A[n].files |-> A[n].files[i].meta.date],
                                 IsTruthyValue))
  IN  [albums   |-> Len(A[n].albums),
       photos   |-> photos,
       videos   |-> videos,
       fromDate |-> Min(dates),
       toDate   |-> Max(dates),
       total    |-> photos + videos]

\* Album.prototype.calculateStats, for album n of the tree A
calculateStats(A, n) ==
  LET albums == A[n].albums
      files  == A[n].files
      nestedPhotos    == [i \in DOMAIN albums |-> A[albums[i]].stats.photos]
      nestedVideos    == [i \in DOMAIN albums |-> A[albums[i]].stats.videos]
      nestedFromDates == [i \in DOMAIN albums |-> A[albums[i]].stats.fromDate]
      nestedToDates   == [i \in DOMAIN albums |-> A[albums[i]].stats.toDate]
      currentPhotos   == Len(SelectSeq(files, LAMBDA f : f.type = "image"))
      currentVideos   == Len(SelectSeq(files, LAMBDA f : f.type = "video"))
      currentFromDate == [i \in DOMAIN files |-> files[i].meta.date]
      currentToDate   == [i \in DOMAIN files |-> files[i].meta.date]
      Numbers(vals)   == Unwrap(SelectSeq(vals, IsTruthyValue))
      photos == Sum(SelectSeq(Append(nestedPhotos, currentPhotos), IsTruthyNumber))
      videos == Sum(SelectSeq(Append(nestedVideos, currentVideos), IsTruthyNumber))
  IN  [albums   |-> Len(A[n].albums),
       photos   |-> photos,
       videos   |-> videos,
       fromDate |-> Min(Numbers(nestedFromDates \o currentFromDate)),
       toDate   |-> Max(Numbers(nestedToDates \o currentToDate)),
       total    |-> photos + videos]

\* function itemCount(count, type)
itemCount(count, type) ==
  IF count = 0 THEN <<>>
  ELSE NumToString(count) \o <<" ">> \o type \o (IF count > 1 THEN <<"s">> ELSE <<>>)

\* Album.prototype.calculateSummary, from the stats just computed
calculateSummary(stats) ==
  LET items == << itemCount(stats.albums, <<"a","l","b","u","m">>),
                  itemCount(stats.photos, <<"p","h","o","t","o">>),
                  itemCount(stats.videos, <<"v","i","d","e","o">>) >>
  IN  Join(SelectSeq(items, IsTruthyString), <<",", " ">>)

\* a.title.match(/^[\d-]+$/)
IsNumericTitle(title) ==
  title # <<>> /\ \A i \in 1..Len(title) : IsDigit(title[i]) \/ title[i] = "-"

\* _.partition(albums, pred): parts[0].concat(parts[1])
NumbersFirst(A, albums) ==
  SelectSeq(albums, LAMBDA a : IsNumericTitle(A[a].title))
    \o SelectSeq(albums, LAMBDA a : ~IsNumericTitle(A[a].title))

\* Album.prototype.sort: the sorted files of album n
sortFiles(A, n, opts) ==
  LET files == A[n].files
  IN  OrderBy(files,
              [i \in DOMAIN files |-> [j \in DOMAIN files |->
                 CompareMedia(opts.sortMediaBy, files[i], files[j])]],
              opts.sortMediaDirection)

\* compareAscending of the sortAlbumsBy values of every two of `albums`
CompareChildren(A, albums, opts) ==
  [i \in DOMAIN albums |-> [j \in DOMAIN albums |->
     CompareAlbums(A, opts.sortAlbumsBy, albums[i], albums[j])]]

\* sort with a descending order obtained by reversing the ascending one
Reverse(seq) == [i \in 1..Len(seq) |-> seq[Len(seq) + 1 - i]]
sortAlbumsByReversal(A, n, opts) ==
  LET ascending == OrderBy(A[n].albums, CompareChildren(A, A[n].albums, opts), "asc")
      ordered == IF opts.sortAlbumsDirection = "desc" THEN Reverse(ascending)
                 ELSE ascending
  IN  IF opts.sortAlmbumsNumbersFirst THEN NumbersFirst(A, ordered) ELSE ordered

\* sort with the numbers-first partition made before the ordering
sortAlbumsPartitionFirst(A, n, opts) ==
  LET parted == IF opts.sortAlmbumsNumbersFirst THEN NumbersFirst(A, A[n].albums)
                ELSE A[n].albums
  IN  OrderBy(parted, CompareChildren(A, parted, opts), opts.sortAlbumsDirection)

\* Album.prototype.sort: the sorted child albums of album n
sortAlbums(A, n, opts) ==
  LET ordered == OrderBy(A[n].albums, CompareChildren(A, A[n].albums, opts),
                         opts.sortAlbumsDirection)
  IN  IF opts.sortAlmbumsNumbersFirst THEN NumbersFirst(A, ordered) ELSE ordered

\* Album.prototype.pickPreviews, from the sorted files and child albums
RECURSIVE Flatten(_)
Flatten(seqs) == IF seqs = <<>> THEN <<>> ELSE Head(seqs) \o Flatten(Tail(seqs))
\* pickPreviews without the padding loop
pickPreviewsUnpadded(A, files, albums) ==
  LET nestedPicks    == SelectSeq(Flatten([i \in DOMAIN albums |-> A[albums[i]].previews]),
                                  LAMBDA file : file # PREVIEW_MISSING)
      potentialPicks == files \o nestedPicks
  IN  SubSeq(potentialPicks, 1,
             IF Len(potentialPicks) < PREVIEW_COUNT
             THEN Len(potentialPicks) ELSE PREVIEW_COUNT)
\* pickPreviews without the filter on the nested previews
pickPreviewsUnfiltered(A, files, albums) ==
  LET potentialPicks == files \o Flatten([i \in DOMAIN albums |-> A[albums[i]].previews])
      picked         == SubSeq(potentialPicks, 1,
                               IF Len(potentialPicks) < PREVIEW_COUNT
                               THEN Len(potentialPicks) ELSE PREVIEW_COUNT)
  IN  picked \o [i \in 1..(PREVIEW_COUNT - Len(picked)) |-> PREVIEW_MISSING]
\* pickPreviews with the nested previews put before the album's own files
pickPreviewsNestedFirst(A, files, albums) ==
  LET nestedPicks    == SelectSeq(Flatten([i \in DOMAIN albums |-> A[albums[i]].previews]),
                                  LAMBDA file : file # PREVIEW_MISSING)
      potentialPicks == nestedPicks \o files
      picked         == SubSeq(potentialPicks, 1,
                               IF Len(potentialPicks) < PREVIEW_COUNT
                               THEN Len(potentialPicks) ELSE PREVIEW_COUNT)
  IN  picked \o [i \in 1..(PREVIEW_COUNT - Len(picked)) |-> PREVIEW_MISSING]
pickPreviews(A, files, albums) ==
  LET nestedPicks    == SelectSeq(Flatten([i \in DOMAIN albums |-> A[albums[i]].previews]),
                                  LAMBDA file : file # PREVIEW_MISSING)
      potentialPicks == files \o nestedPicks
      picked         == SubSeq(potentialPicks, 1,
                               IF Len(potentialPicks) < PREVIEW_COUNT
                               THEN Len(potentialPicks) ELSE PREVIEW_COUNT)
      missing        == PREVIEW_COUNT - Len(picked)
  IN  picked \o [i \in 1..missing |-> PREVIEW_MISSING]

\* ------------------------------------------------------------- path and url
\* options.index || 'index.html'
IndexName(opts) ==
  IF opts.index # <<>> THEN opts.index
  ELSE <<"i","n","d","e","x",".","h","t","m","l">>
\* options.albumsOutputFolder || '.'
OutputFolder(opts) ==
  IF opts.albumsOutputFolder # <<>> THEN opts.albumsOutputFolder ELSE <<".">>
HtmlName(basename) == basename \o <<".","h","t","m","l">>
\* path.join(dir, file) for a relative directory name: '.' is normalised away
pathJoin(dir, file) == IF dir = <<".">> THEN file ELSE dir \o <<"/">> \o file
\* url.resolve(dir + '/', file) for a relative directory name
urlResolve(base, file) == IF base = <<".", "/">> THEN file ELSE base \o file

\* ------------------------------------------------------------------- inputs
File(id, type, filename, date) ==
  [id |-> id, type |-> type, filename |-> filename, meta |-> [date |-> date]]

\* k files whose types, names and dates (-1..3, 0 included) differ and are
\* in no sorted order
ManyFiles(k) ==
  [j \in 1..k |->
     [type     |-> IF j % 3 = 0 THEN "video" ELSE "image",
      filename |-> <<LOWER[((j * 5) % 7) + 1], DIGITS[(j % 2) + 1]>>,
      date     |-> Some(((j * 2) % 5) - 1)]]

\* what an album is built from: the title given to the constructor ('' for
\* none) and its files
ProfilePool ==
  << [title |-> <<"Z","e","b","r","a">>,
      files |-> << [type |-> "image", filename |-> <<"b">>, date |-> Some(2)],
                   [type |-> "video", filename |-> <<"a">>, date |-> Some(0)] >>],
     [title |-> <<"2","0","2","3">>,
      files |-> << >>],
     [title |-> <<"A","p","p","l","e">>,
      files |-> << [type |-> "image", filename |-> <<"c">>, date |-> Some(1)] >>],
     [title |-> <<"m","y","_","T","r","i","p","s","2","0","2","4">>,
      files |-> ManyFiles(11)],
     [title |-> <<"1","-","2">>,
      files |-> << [type |-> "video", filename |-> <<"a">>, date |-> Some(0)] >>],
     [title |-> << >>,
      files |-> ManyFiles(6)],
     [title |-> <<"a","B"," ","c","!">>,
      files |-> << [type |-> "image", filename |-> <<"B">>, date |-> Some(-1)],
                   [type |-> "image", filename |-> <<"a">>, date |-> UNDEFINED],
                   [type |-> "video", filename |-> <<"a">>, date |-> Some(2)] >>],
     [title |-> <<"Z","e","b","r","a">>,
      files |-> ManyFiles(4)],
     [title |-> <<"U","S","A","T","r","i","p","_","-","1">>,
      files |-> << [type |-> "video", filename |-> <<"z">>, date |-> Some(3)] >>] >>

\* the files of album n, each file an object of its own
FilesOf(n, profile) ==
  [j \in 1..Len(profile.files) |->
     File(n * 100 + j, profile.files[j].type, profile.files[j].filename,
          profile.files[j].date)]

\* the child albums of n in a tree of `size` albums, in the order built
RECURSIVE ChildrenFrom(_, _, _, _)
ChildrenFrom(parentOf, n, k, size) ==
  IF k > size THEN <<>>
  ELSE (IF parentOf[k] = n THEN <<k>> ELSE <<>>) \o ChildrenFrom(parentOf, n, k + 1, size)

\* the trees of at most MaxNodes albums: album 1 is the root
TreeShapes ==
  UNION { { p \in [1..size -> 0..size] :
              p[1] = 0 /\ \A k \in 2..size : p[k] \in 1..(k - 1) }
          : size \in 1..MaxNodes }

BuildTree(parentOf, stride, offset) ==
  [n \in DOMAIN parentOf |->
     LET profile == ProfilePool[(((n - 1) * stride + offset) % NumProfiles) + 1]
     IN  Album(n, profile.title, FilesOf(n, profile),
               ChildrenFrom(parentOf, n, n + 1, Len(parentOf)))]

NoOptions ==
  [albumsOutputFolder |-> <<>>, index |-> <<>>, titleizeAlbumNames |-> FALSE,
   sortMediaBy |-> "", sortMediaDirection |-> "",
   sortAlbumsBy |-> "", sortAlbumsDirection |-> "",
   sortAlmbumsNumbersFirst |-> FALSE]

\* the option records finalize is called with
OptionSets ==
       { [NoOptions EXCEPT !.sortAlbumsBy = by, !.sortAlbumsDirection = dir,
                           !.sortAlmbumsNumbersFirst = nf] :
           by \in {"title", "start-date", "end-date", ""},
           dir \in {"asc", "desc"}, nf \in BOOLEAN }
  \cup { [NoOptions EXCEPT !.sortMediaBy = by, !.sortMediaDirection = dir] :
           by \in {"filename", "date", ""}, dir \in {"", "desc"} }
  \cup { [NoOptions EXCEPT !.titleizeAlbumNames = tz, !.index = ix,
                           !.albumsOutputFolder = dir,
                           !.sortAlmbumsNumbersFirst = tz] :
           tz \in BOOLEAN,
           ix \in {<<>>, <<"h","o","m","e",".","h","t","m","l">>},
           dir \in {<<>>, <<"a","l","b","u","m","s">>} }

\* -------------------------------------------------------------------- state
VARIABLES
  album,     \* the albums of the tree, album[1] the root
  options,   \* the options finalize is called with
  stack,     \* the calls of finalize in progress, innermost last
  runs,      \* number of completed calls of finalize on the root
  built,     \* history: the tree as constructed
  prev,      \* history: the tree when the current/last root call started
  calls,     \* history: albums in the order finalize was entered, this run
  finished   \* history: albums whose finalize has returned, this run

vars == <<album, options, stack, runs, built, prev, calls, finished>>

Init ==
  /\ \E parentOf \in TreeShapes, stride \in 0..2, offset \in 0..(NumProfiles - 1) :
       album = BuildTree(parentOf, stride, offset)
  /\ options \in OptionSets
  /\ stack = <<>>
  /\ runs = 0
  /\ built = album
  /\ prev = <<>>
  /\ calls = <<>>
  /\ finished = {}

\* lines 48-67 with the depth of a nested album set to its parent's depth
EnterFinalizeSameDepth(A, self, parent, opts) ==
  LET title    == IF opts.titleizeAlbumNames THEN titleize(A[self].title)
                  ELSE A[self].title
      basename == IF parent # 0 /\ A[parent].depth > 0
                  THEN A[parent].basename \o <<"-">> \o A[self].basename
                  ELSE A[self].basename
  IN  IF parent = 0
      THEN [A[self] EXCEPT !.title = title,
                           !.path  = Some(IndexName(opts)),
                           !.url   = Some(IndexName(opts)),
                           !.depth = 0]
      ELSE [A[self] EXCEPT !.title = title,
                           !.basename = basename,
                           !.path  = Some(pathJoin(OutputFolder(opts), HtmlName(basename))),
                           !.url   = Some(urlResolve(OutputFolder(opts) \o <<"/">>,
                                                     HtmlName(basename))),
                           !.depth = A[parent].depth]
\* lines 48-67 with the parent's basename prefixed whatever the parent's depth
EnterFinalizeAlwaysPrefixed(A, self, parent, opts) ==
  LET title    == IF opts.titleizeAlbumNames THEN titleize(A[self].title)
                  ELSE A[self].title
      basename == IF parent # 0
                  THEN A[parent].basename \o <<"-">> \o A[self].basename
                  ELSE A[self].basename
  IN  IF parent = 0
      THEN [A[self] EXCEPT !.title = title,
                           !.path  = Some(IndexName(opts)),
                           !.url   = Some(IndexName(opts)),
                           !.depth = 0]
      ELSE [A[self] EXCEPT !.title = title,
                           !.basename = basename,
                           !.path  = Some(pathJoin(OutputFolder(opts), HtmlName(basename))),
                           !.url   = Some(urlResolve(OutputFolder(opts) \o <<"/">>,
                                                     HtmlName(basename))),
                           !.depth = A[parent].depth + 1]

\* finalize, lines 48-67: the album `self` of the tree A once its title,
\* basename, path, url and depth are set; parent = 0 is the null parent
EnterFinalize(A, self, parent, opts) ==
  LET albumsOutputFolder == OutputFolder(opts)
      title    == IF opts.titleizeAlbumNames THEN titleize(A[self].title)
                  ELSE A[self].title
      basename == IF parent # 0 /\ A[parent].depth > 0
                  THEN A[parent].basename \o <<"-">> \o A[self].basename
                  ELSE A[self].basename
  IN  IF parent = 0
      THEN [A[self] EXCEPT !.title = title,
                           !.path  = Some(IndexName(opts)),
                           !.url   = Some(IndexName(opts)),
                           !.depth = 0]
      ELSE [A[self] EXCEPT !.title = title,
                           !.basename = basename,
                           !.path  = Some(pathJoin(albumsOutputFolder, HtmlName(basename))),
                           !.url   = Some(urlResolve(albumsOutputFolder \o <<"/">>,
                                                     HtmlName(basename))),
                           !.depth = A[parent].depth + 1]

\* lines 74-78 with the basename derived from the title again
FinishFinalizeReslug(A, self, opts) ==
  LET stats  == calculateStats(A, self)
      files  == sortFiles(A, self, opts)
      albums == sortAlbums(A, self, opts)
  IN  [A[self] EXCEPT !.home     = (A[self].depth = 0),
                      !.basename = sanitise(A[self].title),
                      !.stats    = stats,
                      !.summary  = Some(calculateSummary(stats)),
                      !.files    = files,
                      !.albums   = albums,
                      !.previews = pickPreviews(A, files, albums)]

\* finalize, lines 74-78: the album `self` once its children are finalized
FinishFinalize(A, self, opts) ==
  LET stats  == calculateStats(A, self)
      files  == sortFiles(A, self, opts)
      albums == sortAlbums(A, self, opts)
  IN  [A[self] EXCEPT !.home     = (A[self].depth = 0),
                      !.stats    = stats,
                      !.summary  = Some(calculateSummary(stats)),
                      !.files    = files,
                      !.albums   = albums,
                      !.previews = pickPreviews(A, files, albums)]

Top == stack[Len(stack)]

\* the caller invokes root.finalize(options, null)
FinalizeRoot ==
  /\ stack = <<>>
  /\ runs < MaxRuns
  /\ album' = [album EXCEPT ![1] = EnterFinalize(album, 1, 0, options)]
  /\ stack' = <<[self |-> 1, i |-> 1]>>
  /\ prev' = album
  /\ calls' = <<1>>
  /\ finished' = {}
  /\ UNCHANGED <<options, runs, built>>

\* one iteration of the loop of lines 69-71: this.albums[i].finalize(options, this)
FinalizeNested ==
  /\ stack # <<>>
  /\ Top.i <= Len(album[Top.self].albums)
  /\ LET child == album[Top.self].albums[Top.i]
     IN  /\ album' = [album EXCEPT ![child] = EnterFinalize(album, child, Top.self, options)]
         /\ stack' = Append([stack EXCEPT ![Len(stack)].i = Top.i + 1],
                            [self |-> child, i |-> 1])
         /\ calls' = Append(calls, child)
  /\ UNCHANGED <<options, runs, built, prev, finished>>

\* the loop is over: lines 74-78, and finalize returns
PostProcess ==
  /\ stack # <<>>
  /\ Top.i > Len(album[Top.self].albums)
  /\ album' = [album EXCEPT ![Top.self] = FinishFinalize(album, Top.self, options)]
  /\ stack' = SubSeq(stack, 1, Len(stack) - 1)
  /\ finished' = finished \cup {Top.self}
  /\ runs' = IF Len(stack) = 1 THEN runs + 1 ELSE runs
  /\ UNCHANGED <<options, built, prev, calls>>

Next == FinalizeRoot \/ FinalizeNested \/ PostProcess

Spec == Init /\ [][Next]_vars

\* ------------------------------------------------- vocabulary of the claims
Nodes == DOMAIN album
ParentOf(n) == CHOOSE m \in Nodes : n \in Range(built[m].albums)
RECURSIVE Subtree(_)
Subtree(n) == {n} \cup UNION {Subtree(c) : c \in Range(built[n].albums)}
SubtreeFiles(n) == UNION {Range(built[m].files) : m \in Subtree(n)}
\* the dates of the media items of the subtree of n
SubtreeDates(n) == {f.meta.date[1] : f \in {g \in SubtreeFiles(n) : g.meta.date # UNDEFINED}}
IsReal(file) == file # PREVIEW_MISSING
RealPreviews(n) == SelectSeq(album[n].previews, IsReal)
\* no call of finalize is in progress and the root has been finalized
TreeFinalized == stack = <<>> /\ runs >= 1
\* ... exactly once
FinalizedOnce == stack = <<>> /\ runs = 1
\* the root has been finalized again
Refinalized == stack = <<>> /\ runs >= 2

\* C1: after finalize on the root, every album of the tree has exactly
\* PREVIEW_COUNT previews, whatever the number of files in its subtree
C1_PreviewCount ==
  TreeFinalized => \A n \in Nodes : Len(album[n].previews) = PREVIEW_COUNT
\* a finalized tree with an album whose subtree has no file and an album
\* whose subtree has more than PREVIEW_COUNT files
C1_Witness ==
  /\ TreeFinalized
  /\ \E n \in Nodes : SubtreeFiles(n) = {}
  /\ \E n \in Nodes : Cardinality(SubtreeFiles(n)) > PREVIEW_COUNT

\* C2: in a finalized tree the photos (videos) of an album are the sum of
\* the photos (videos) of its direct children plus the number of its own
\* files of type image (video), and total = photos + videos
C2_StatsAdditive ==
  TreeFinalized =>
    \A n \in Nodes :
      LET s == album[n].stats
          files == album[n].files
      IN  /\ s.photos = Sum([i \in DOMAIN album[n].albums |-> album[album[n].albums[i]].stats.photos])
                          + Cardinality({i \in DOMAIN files : files[i].type = "image"})
          /\ s.videos = Sum([i \in DOMAIN album[n].albums |-> album[album[n].albums[i]].stats.videos])
                          + Cardinality({i \in DOMAIN files : files[i].type = "video"})
          /\ s.total = s.photos + s.videos
\* an album with no video of its own, a child without photos and a child
\* with photos
C2_Witness ==
  /\ TreeFinalized
  /\ \E n \in Nodes :
       /\ \A i \in DOMAIN album[n].files : album[n].files[i].type # "video"
       /\ \E c \in Range(album[n].albums) : album[c].stats.photos = 0
       /\ \E c \in Range(album[n].albums) : album[c].stats.photos > 0
       /\ album[n].stats.videos > 0

\* C3: in a finalized tree the placeholders of an album's previews come
\* after all its real items, and there are exactly as many as its own files
\* plus its children's real previews fall short of PREVIEW_COUNT (none when
\* they do not), so none is taken over from a child
C3_PlaceholderSuffix ==
  TreeFinalized =>
    \A n \in Nodes :
      LET p == album[n].previews
          available == Len(album[n].files)
                         + Sum([i \in DOMAIN album[n].albums |-> Len(RealPreviews(album[n].albums[i]))])
          placeholders == Cardinality({i \in DOMAIN p : p[i] = PREVIEW_MISSING})
      IN  /\ \A i, j \in DOMAIN p : p[i] = PREVIEW_MISSING /\ i < j => p[j] = PREVIEW_MISSING
          /\ placeholders = IF available < PREVIEW_COUNT
                            THEN PREVIEW_COUNT - available ELSE 0
\* an album with real previews and placeholders of its own that has a child
\* whose previews hold placeholders
C3_Witness ==
  /\ TreeFinalized
  /\ \E n \in Nodes :
       /\ album[n].previews[1] # PREVIEW_MISSING
       /\ album[n].previews[PREVIEW_COUNT] = PREVIEW_MISSING
       /\ \E c \in Range(album[n].albums) :
            /\ album[c].previews[1] # PREVIEW_MISSING
            /\ album[c].previews[PREVIEW_COUNT] = PREVIEW_MISSING

\* C4: in a finalized tree, fromDate / toDate of an album are the minimum /
\* maximum date of the media items of its subtree (dates are integers, 0
\* among them), hence fromDate <= toDate; both are undefined when the
\* subtree has no dated media item
C4_DateRange ==
  TreeFinalized =>
    \A n \in Nodes :
      LET dates == SubtreeDates(n)
          s == album[n].stats
      IN  IF dates = {}
          THEN s.fromDate = UNDEFINED /\ s.toDate = UNDEFINED
          ELSE /\ s.fromDate = Some(CHOOSE d \in dates : \A e \in dates : d <= e)
               /\ s.toDate = Some(CHOOSE d \in dates : \A e \in dates : d >= e)
               /\ s.fromDate[1] <= s.toDate[1]

\* C5: after finalize on the root, the root has depth 0, home = true and
\* path = url = options.index (index.html when not given); every other
\* album has its parent's depth + 1 and home = false, so one album is home
C5_RootIdentity ==
  TreeFinalized =>
    LET index == IF options.index # <<>> THEN options.index
                 ELSE <<"i","n","d","e","x",".","h","t","m","l">>
    IN  /\ album[1].depth = 0
        /\ album[1].home = TRUE
        /\ album[1].path = Some(index)
        /\ album[1].url = Some(index)
        /\ \A n \in Nodes \ {1} :
             album[n].depth = album[ParentOf(n)].depth + 1 /\ album[n].home = FALSE
        /\ Cardinality({n \in Nodes : album[n].home}) = 1
\* a finalized tree with an index option, an album at depth 2, and a root
\* whose basename is not the index name
C5_Witness ==
  /\ TreeFinalized
  /\ options.index # <<>>
  /\ \E n \in Nodes : album[n].depth = 2
  /\ HtmlName(album[1].basename) # options.index

\* the '-'-joined sanitised construction titles of the ancestors of n from
\* depth 1 down to n
RECURSIVE SlugChain(_)
SlugChain(n) ==
  IF ParentOf(n) = 1 THEN sanitise(built[n].title)
  ELSE SlugChain(ParentOf(n)) \o <<"-">> \o sanitise(built[n].title)

\* C6 as stated: after one finalize, for any options, an album at depth 1
\* has basename sanitise(its title) and an album at depth >= 2 has its
\* parent's basename + '-' + sanitise(its title)
C6_BasenameOfTitle ==
  FinalizedOnce =>
    \A n \in Nodes \ {1} :
      /\ album[n].depth = 1 => album[n].basename = sanitise(album[n].title)
      /\ album[n].depth >= 2 =>
           album[n].basename =
             album[ParentOf(n)].basename \o <<"-">> \o sanitise(album[n].title)

\* C6 amended: after one finalize, for any options, an album at depth 1 has
\* basename sanitise(the title it was constructed with) and an album at
\* depth >= 2 has its parent's basename + '-' + sanitise(the title it was
\* constructed with): the chain of the sanitised construction titles
C6_BasenameChain ==
  FinalizedOnce =>
    \A n \in Nodes \ {1} :
      /\ album[n].depth = 1 => album[n].basename = sanitise(built[n].title)
      /\ album[n].depth >= 2 =>
           album[n].basename =
             album[ParentOf(n)].basename \o <<"-">> \o sanitise(built[n].title)
      /\ album[n].basename = SlugChain(n)
\* finalized once with titleizeAlbumNames, with an album at depth 2 whose
\* rewritten title no longer sanitises to its basename's last link
C6_Witness ==
  /\ FinalizedOnce
  /\ options.titleizeAlbumNames
  /\ \E n \in Nodes :
       /\ album[n].depth = 2
       /\ sanitise(album[n].title) # sanitise(built[n].title)
       /\ album[ParentOf(n)].basename # <<>>

\* C7 as stated: a second finalize of the root with the same options leaves
\* every field of every album as the first finalize left it
C7_RefinalizeNoOp ==
  Refinalized => album = prev

\* C7 amended: a second finalize of the root with the same options leaves
\* every album at depth <= 1 as it was, and every album at depth >= 2 as it
\* was but for basename, path and url, as its parent's basename is
\* prefixed to its basename once more
C7_RefinalizeShallowNoOp ==
  Refinalized =>
    \A n \in Nodes :
      IF album[n].depth <= 1
      THEN album[n] = prev[n]
      ELSE /\ [album[n] EXCEPT !.basename = prev[n].basename,
                               !.path = prev[n].path,
                               !.url = prev[n].url] = prev[n]
           /\ album[n].basename =
                album[ParentOf(n)].basename \o <<"-">> \o prev[n].basename
\* finalized twice, with an album at depth 2, sorted child albums that were
\* reordered by the first finalize and tie under a descending order
C7_Witness ==
  /\ Refinalized
  /\ options.sortAlbumsDirection = "desc"
  /\ \E n \in Nodes : album[n].depth = 2
  /\ \E n \in Nodes :
       /\ album[n].albums # built[n].albums
       /\ \E a, b \in Range(album[n].albums) :
            a # b /\ CompareAlbums(album, options.sortAlbumsBy, a, b) = 0

\* the position of x in seq
IndexOf(seq, x) == CHOOSE i \in DOMAIN seq : seq[i] = x

\* C8: with sortAlmbumsNumbersFirst, the finalized child albums of an album
\* are a permutation of its children: first those with a title matching
\* ^[0-9-]+$, then the others, each group in the configured order, albums
\* that tie in that order staying in their order before the sort
C8_NumbersFirst ==
  (TreeFinalized /\ options.sortAlmbumsNumbersFirst) =>
    \A n \in Nodes :
      LET after == album[n].albums
          before == prev[n].albums
          sign == IF options.sortAlbumsDirection = "desc" THEN -1 ELSE 1
          Numeric(a) == IsNumericTitle(album[a].title)
      IN  /\ Len(after) = Len(before)
          /\ Range(after) = Range(before)
          /\ \A i, j \in DOMAIN after :
               i < j =>
                 /\ Numeric(after[j]) => Numeric(after[i])
                 /\ (Numeric(after[i]) <=> Numeric(after[j])) =>
                      LET c == sign * CompareAlbums(album, options.sortAlbumsBy,
                                                    after[i], after[j])
                      IN  \/ c < 0
                          \/ c = 0 /\ IndexOf(before, after[i]) < IndexOf(before, after[j])
\* the scenario "Zebra", "2023", "Apple" sorted by ascending title, numbers
\* first, once finalized: "2023", "Apple", "Zebra"
C8_Witness ==
  /\ FinalizedOnce
  /\ options.sortAlmbumsNumbersFirst
  /\ options.sortAlbumsBy = "title"
  /\ options.sortAlbumsDirection = "asc"
  /\ \E n \in Nodes :
       /\ [i \in DOMAIN built[n].albums |-> album[built[n].albums[i]].title]
            = << <<"Z","e","b","r","a">>, <<"2","0","2","3">>, <<"A","p","p","l","e">> >>
       /\ [i \in DOMAIN album[n].albums |-> album[album[n].albums[i]].title]
            = << <<"2","0","2","3">>, <<"A","p","p","l","e">>, <<"Z","e","b","r","a">> >>

\* C9: in every step of finalize: an album computes its stats, summary,
\* sort and previews only when each of its children has returned from
\* finalize (its stats and previews are set), the children having been
\* entered in the order of the albums array before the sort; a child is
\* entered only when its parent's path, url and depth are set; and the
\* path, url, depth and basename of an album entered in this call of
\* finalize on the root do not change afterwards
C9_Ordering ==
  [][ /\ \A n \in finished' \ finished :
           /\ \A c \in Range(album[n].albums) :
                /\ c \in finished
                /\ album[c].stats # UNDEFINED
                /\ album[c].previews # UNDEFINED
           /\ SelectSeq(calls, LAMBDA c : c \in Range(album[n].albums)) = album[n].albums
      /\ (stack # <<>> /\ Len(stack') > Len(stack)) =>
           LET parent == Top.self
           IN  /\ parent \in Range(calls)
               /\ parent \notin finished
               /\ album[parent].path # UNDEFINED
               /\ album[parent].url # UNDEFINED
               /\ album[parent].depth = Len(stack) - 1
      /\ Len(calls') >= Len(calls) =>
           \A n \in Range(calls) :
             /\ album'[n].basename = album[n].basename
             /\ album'[n].path = album[n].path
             /\ album'[n].url = album[n].url
             /\ album'[n].depth = album[n].depth
    ]_vars
\* during the first finalize: an album at depth 1 with two finalized
\* children is about to compute its stats, and its sort will reorder them
C9_Witness ==
  /\ runs = 0
  /\ Len(stack) = 2
  /\ Top.i > Len(album[Top.self].albums)
  /\ Len(album[Top.self].albums) >= 2
  /\ Range(album[Top.self].albums) \subseteq finished
  /\ sortAlbums(album, Top.self, options) # album[Top.self].albums

\* C10: in a finalized tree the real previews of an album are the first
\* min(PREVIEW_COUNT, n) items of its sorted files followed by the real
\* previews of its children, child by child in the order of its albums;
\* its files are in the configured order, and every real preview is a file
\* of its subtree
C10_PreviewOrder ==
  TreeFinalized =>
    \A n \in Nodes :
      LET files == album[n].files
          pool == files \o Flatten([i \in DOMAIN album[n].albums |-> RealPreviews(album[n].albums[i])])
          count == IF Len(pool) < PREVIEW_COUNT THEN Len(pool) ELSE PREVIEW_COUNT
          sign == IF options.sortMediaDirection = "desc" THEN -1 ELSE 1
      IN  /\ RealPreviews(n) = SubSeq(pool, 1, count)
          /\ SubSeq(album[n].previews, 1, count) = SubSeq(pool, 1, count)
          /\ Range(RealPreviews(n)) \subseteq SubtreeFiles(n)
          /\ Range(files) = Range(built[n].files)
          /\ \A i, j \in DOMAIN files :
               i < j => sign * CompareMedia(options.sortMediaBy, files[i], files[j]) <= 0
\* an album whose previews hold all its own files, reordered by the sort,
\* followed by items of two of its children, the second child's cut short
C10_Witness ==
  /\ TreeFinalized
  /\ \E n \in Nodes :
       /\ album[n].files # built[n].files
       /\ Len(album[n].albums) >= 2
       /\ Len(album[n].files) + Len(RealPreviews(album[n].albums[1])) < PREVIEW_COUNT
       /\ RealPreviews(album[n].albums[1]) # <<>>
       /\ album[n].previews[PREVIEW_COUNT] \in Range(RealPreviews(album[n].albums[2]))
       /\ Len(album[n].files) + Len(RealPreviews(album[n].albums[1]))
            + Len(RealPreviews(album[n].albums[2])) > PREVIEW_COUNT

====
